---- MODULE Spec2Model ----
(***************************************************************************)
(* Model of the conversational query orchestrator of src/app.py:           *)
(* the in-memory session store (conversations, get_conversation,           *)
(* add_to_conversation, update_context, clear_session) and the two-round   *)
(* tool protocol of claude_parse.                                          *)
(***************************************************************************)
EXTENDS Integers, Sequences, FiniteSets, TLC

VARIABLES
    conversations,  \* the global dict: session id -> [messages, context, last_active]
    now,            \* the value time.time() returns, in seconds
    log,            \* history: per stored session, every entry appended since it was created
    lastOp,         \* history: the last store operation, its argument and what it found
    apiKey,         \* whether ANTHROPIC_API_KEY is set in the environment
    pc,             \* where claude_parse stands: idle, round1, tools, round2, done
    req,            \* the JSON body of the request being handled
    sent,           \* the requests posted to the engine for this query, in order
    outcomes,       \* history: what each post returned: "failed" or the stop_reason
    content_blocks, \* the content of the engine's last response
    idx,            \* the tool loop's position in content_blocks
    tool_results,   \* the tool_result entries collected so far
    executed,       \* history: the execute_tool calls of this query, in order
    responses,      \* the HTTP responses returned for this query
    tally,          \* history: this query's posts, tool_use blocks and execute_tool calls
    nq,             \* history: how many queries have been submitted
    conv,           \* history: the session get_conversation returned to this query
    final,          \* history: the assistant_message this query extracted
    threads,        \* two handler threads in lines 1540-1545: where each stands
    resolved        \* history: the sessions a turn has resolved a client in since they were created

storeVars == <<conversations, now, log, lastOp>>

queryVars == <<pc, req, sent, outcomes, content_blocks, idx, tool_results,
               executed, responses, tally, nq, conv, final>>

vars == <<conversations, now, log, lastOp, apiKey, pc, req, sent, outcomes,
          content_blocks, idx, tool_results, executed, responses, tally, nq, conv, final,
          threads, resolved>>

----------------------------------------------------------------------------
(* Bounds of the model *)

\* the clock stops advancing past this many seconds (60 minutes)
MaxNow == 3600

\* SpecStore: at most this many entries are appended over all stored sessions
MaxStoreAppends == 3

\* SpecHistory: at most this many entries are appended to the one session
MaxAppends == 22

\* SpecSession: at most this many queries are submitted
MaxQueries == 2

SessionIds == {"s1", "s2"}

ClientCodes == {"TOW", "SKY"}

\* the steps by which the clock advances: 29, 30 and 31 minutes
TickSteps == {29 * 60, 30 * 60, 31 * 60}

----------------------------------------------------------------------------
(* The session store *)

SESSION_TIMEOUT == 30 * 60

\* the cap on a session's messages (10 exchanges)
MaxMessages == 20

EmptyDict == [k \in {} |-> ""]

NewConversation(t) ==
    [messages |-> <<>>, context |-> EmptyDict, last_active |-> t]

\* faulty variant of Expired: a session idle for exactly the timeout is already expired
ExpiredAtTimeout(data, t) == t - data.last_active >= SESSION_TIMEOUT

\* the test of the sweep's list comprehension
Expired(data, t) == t - data.last_active > SESSION_TIMEOUT

\* "for sid in expired: del conversations[sid]"
Sweep(convs, t) ==
    [s \in {x \in DOMAIN convs : ~Expired(convs[x], t)} |-> convs[s]]

\* faulty variant of GetConversation: only the requested session is checked for expiry
GetConversationSweepingRequested(convs, sid, t) ==
    IF sid \notin DOMAIN convs \/ Expired(convs[sid], t)
    THEN [s \in DOMAIN convs \cup {sid} |->
             IF s = sid THEN NewConversation(t) ELSE convs[s]]
    ELSE [convs EXCEPT ![sid].last_active = t]

\* get_conversation: the store after the call (the call returns the entry of sid)
GetConversation(convs, sid, t) ==
    LET swept == Sweep(convs, t)
    IN  IF sid \notin DOMAIN swept
        THEN [s \in DOMAIN swept \cup {sid} |->
                 IF s = sid THEN NewConversation(t) ELSE swept[s]]
        ELSE [swept EXCEPT ![sid].last_active = t]

\* faulty variant of Trim: the oldest entries are kept, the newest dropped
TrimKeepingOldest(msgs) ==
    IF Len(msgs) > MaxMessages THEN SubSeq(msgs, 1, MaxMessages) ELSE msgs

\* messages[-20:] when there are more than 20
Trim(msgs) ==
    IF Len(msgs) > MaxMessages
    THEN SubSeq(msgs, Len(msgs) - MaxMessages + 1, Len(msgs))
    ELSE msgs

\* add_to_conversation: the store after the call
AddToConversation(convs, sid, role, content, t) ==
    LET got == GetConversation(convs, sid, t)
        appended == Append(got[sid].messages, [role |-> role, content |-> content])
    IN  [got EXCEPT ![sid].messages = Trim(appended)]

\* dict.update
DictUpdate(d, u) ==
    [k \in DOMAIN d \cup DOMAIN u |-> IF k \in DOMAIN u THEN u[k] ELSE d[k]]

\* update_context: the store after the call
UpdateContext(convs, sid, context_update, t) ==
    LET got == GetConversation(convs, sid, t)
    IN  [got EXCEPT ![sid].context = DictUpdate(got[sid].context, context_update)]

\* the body of clear_session: "if session_id in conversations: del ..."
DelSession(convs, sid) ==
    [s \in DOMAIN convs \ {sid} |-> convs[s]]

\* faulty variant of ClearSessionReturn: the session is deleted without the
\* membership test, and an absent id raises KeyError
ClearSessionReturnStrict(convs, sid) ==
    IF sid \in DOMAIN convs
    THEN [convs |-> DelSession(convs, sid), response |-> [status |-> 200, success |-> TRUE]]
    ELSE [convs |-> convs, response |-> [status |-> 500, success |-> FALSE]]

\* clear_session: the store after the call, and the response
ClearSessionReturn(convs, sid) ==
    [convs |-> DelSession(convs, sid), response |-> [status |-> 200, success |-> TRUE]]

----------------------------------------------------------------------------
(* Python values *)

\* None
None == "None"

\* "not v" is false for a string v
Truthy(v) == v # None /\ v # ""

\* dict.get(k, default)
DictGet(d, k, default) == IF k \in DOMAIN d THEN d[k] ELSE default

\* strings that the code searches are sequences of characters
UpperCase ==
    [c \in {"E", "W", "S"} |-> CASE c = "E" -> "e" [] c = "W" -> "w" [] c = "S" -> "s"]

\* str.lower
Lower(str) ==
    [i \in 1..Len(str) |-> IF str[i] \in DOMAIN UpperCase THEN UpperCase[str[i]] ELSE str[i]]

\* "kw in str"
Contains(str, kw) ==
    \E i \in 0..(Len(str) - Len(kw)) : SubSeq(str, i + 1, i + Len(kw)) = kw

----------------------------------------------------------------------------
(* The requests of the model *)

Q_JOBS == <<"S", "k", "y", " ", "j", "o", "b", "s">>

Q_EMAIL == <<"E", "m", "a", "i", "l", "?">>

Q_WHOS == <<"W", "h", "o", "'", "s", "?">>

\* a JSON body holding the keys "has"; a key it does not hold has no value
Body(h, q, sid, m, c, ta) ==
    [has |-> h,
     question |-> IF "question" \in h THEN q ELSE <<>>,
     sessionId |-> IF "sessionId" \in h THEN sid ELSE "",
     userMode |-> IF "userMode" \in h THEN m ELSE "",
     userClient |-> IF "userClient" \in h THEN c ELSE "",
     trackerAccess |-> IF "trackerAccess" \in h THEN ta ELSE TRUE]

AllKeys == {"question", "sessionId", "userMode", "userClient", "trackerAccess"}

\* the request bodies of the model, for the session ids sids: a client viewer
\* with and without its client code, a body of question and session alone,
\* a body without a question and a body without a session id
RequestBodies(sids) ==
    { Body(h, q, sid, "client", "TOW", ta) :
        h \in {AllKeys, AllKeys \ {"userClient"}},
        q \in {<<>>, Q_JOBS, Q_EMAIL}, sid \in sids, ta \in BOOLEAN }
    \cup
    { Body(h, q, sid, "hunch", "", TRUE) :
        h \in {{"question", "sessionId"}, {"sessionId"}},
        q \in {Q_JOBS, Q_EMAIL}, sid \in sids }
    \cup
    { Body({"question"}, Q_JOBS, "", "hunch", "", TRUE),
      Body({"question", "sessionId"}, Q_WHOS, "s1", "hunch", "", TRUE) }

\* data.get(k, default)
DataGet(data, k, default) == IF k \in data.has THEN data[k] ELSE default

Question(data) == DataGet(data, "question", <<>>)

\* faulty variant of SessionId: a request without a session id gets the empty id
SessionIdOrEmpty(data) == DataGet(data, "sessionId", "")

SessionId(data) == DataGet(data, "sessionId", "default")

UserMode(data) == DataGet(data, "userMode", "hunch")

UserClient(data) == DataGet(data, "userClient", None)

TrackerAccess(data) == DataGet(data, "trackerAccess", TRUE)

\* faulty variant of NoQuestion: only a missing question is refused, an empty one is not
NoQuestionKey(data) == "question" \notin data.has

\* "if not question"
NoQuestion(data) == Question(data) = <<>>

----------------------------------------------------------------------------
(* The tool registry *)

CLAUDE_TOOLS == <<"search_people", "get_client_detail", "get_spend_summary">>

Range(seq) == {seq[i] : i \in 1..Len(seq)}

\* the names the engine may ask for: the registry's and one it does not hold
EngineToolNames == Range(CLAUDE_TOOLS) \cup {"reserve_job_number"}

\* a tool function's return value: the lookup's result, or the exception it caught
ToolReturn(tool, client_code, dataOk) ==
    IF dataOk THEN [tool |-> tool, clientCode |-> client_code]
    ELSE [error |-> "str(e)"]

\* faulty variant of ExecuteTool: an unknown tool name raises
ExecuteToolRaising(tool_name, tool_input, dataOk) ==
    IF tool_name \in {"search_people", "get_client_detail", "get_spend_summary"}
    THEN [raised |-> FALSE, writes |-> {},
          result |-> ToolReturn(tool_name, DictGet(tool_input, "client_code", None), dataOk)]
    ELSE [raised |-> TRUE, writes |-> {},
          result |-> [error |-> <<"Unknown tool: ", tool_name>>]]

\* faulty variant of ExecuteTool: reserve_job_number is a tool of the registry, and
\* advances the sequence counter of the data store
ExecuteToolReserving(tool_name, tool_input, dataOk) ==
    IF tool_name \in {"search_people", "get_client_detail", "get_spend_summary"}
    THEN [raised |-> FALSE, writes |-> {},
          result |-> ToolReturn(tool_name, DictGet(tool_input, "client_code", None), dataOk)]
    ELSE IF tool_name = "reserve_job_number"
    THEN [raised |-> FALSE, writes |-> {"nextJobNumber"},
          result |-> [reservedJobNumber |-> 1, nextJobNumber |-> 2]]
    ELSE [raised |-> FALSE, writes |-> {},
          result |-> [error |-> <<"Unknown tool: ", tool_name>>]]

\* execute_tool: whether it raised, the fields of the data store it wrote (the
\* tool functions only read: requests.get), and the mapping it returned
ExecuteTool(tool_name, tool_input, dataOk) ==
    IF tool_name \in {"search_people", "get_client_detail", "get_spend_summary"}
    THEN [raised |-> FALSE, writes |-> {},
          result |-> ToolReturn(tool_name, DictGet(tool_input, "client_code", None), dataOk)]
    ELSE [raised |-> FALSE, writes |-> {},
          result |-> [error |-> <<"Unknown tool: ", tool_name>>]]

\* faulty variant of EnforceClient: the client code is set only where the tool requires
\* one, and only when the engine left it out
EnforceClientWhenMissing(user_mode, user_client, tool_name, tool_input) ==
    IF user_mode = "client" /\ Truthy(user_client)
       /\ "client_code" \notin DOMAIN tool_input
       /\ tool_name \in {"get_client_detail", "get_spend_summary"}
    THEN DictUpdate(tool_input, [k \in {"client_code"} |-> user_client])
    ELSE tool_input

\* "Enforce client restrictions": the input the tool is executed with
EnforceClient(user_mode, user_client, tool_name, tool_input) ==
    IF user_mode = "client" /\ Truthy(user_client)
    THEN IF "client_code" \in DOMAIN tool_input
         THEN [tool_input EXCEPT !["client_code"] = user_client]
         ELSE IF tool_name \in {"get_client_detail", "get_spend_summary"}
              THEN DictUpdate(tool_input, [k \in {"client_code"} |-> user_client])
              ELSE tool_input
    ELSE tool_input

\* json.dumps
JsonDumps(v) == [json |-> v]

ToolResultEntry(tool_id, tool_result) ==
    [type |-> "tool_result", tool_use_id |-> tool_id, content |-> JsonDumps(tool_result)]

REMINDER ==
    [type |-> "text",
     text |-> "Now respond with ONLY valid JSON in the required format. No other text."]

----------------------------------------------------------------------------
(* Building the first request *)

\* faulty variant of tool_keywords: "who's" and "invite" are no keywords
tool_keywords_nine ==
    {<<"c", "o", "n", "t", "a", "c", "t">>,
     <<"e", "m", "a", "i", "l">>,
     <<"p", "h", "o", "n", "e">>,
     <<"p", "e", "o", "p", "l", "e">>,
     <<"p", "e", "r", "s", "o", "n">>,
     <<"h", "o", "w", " ", "m", "a", "n", "y">>,
     <<"w", "h", "o", " ", "i", "s">>,
     <<"b", "i", "r", "t", "h", "d", "a", "y">>,
     <<"a", "d", "d", "r", "e", "s", "s">>}

tool_keywords ==
    {<<"c", "o", "n", "t", "a", "c", "t">>,
     <<"e", "m", "a", "i", "l">>,
     <<"p", "h", "o", "n", "e">>,
     <<"p", "e", "o", "p", "l", "e">>,
     <<"p", "e", "r", "s", "o", "n">>,
     <<"h", "o", "w", " ", "m", "a", "n", "y">>,
     <<"w", "h", "o", " ", "i", "s">>,
     <<"w", "h", "o", "'", "s">>,
     <<"i", "n", "v", "i", "t", "e">>,
     <<"b", "i", "r", "t", "h", "d", "a", "y">>,
     <<"a", "d", "d", "r", "e", "s", "s">>}

might_need_tools(question) ==
    \E kw \in tool_keywords : Contains(Lower(question), kw)

NoTools == <<>>

\* the tools offered in round 1
AvailableTools(question, tracker_access) ==
    IF might_need_tools(question)
    THEN IF tracker_access THEN CLAUDE_TOOLS
         ELSE SelectSeq(CLAUDE_TOOLS, LAMBDA t : t # "get_spend_summary")
    ELSE NoTools

\* history[-10:]
HistoryWindow == 10

LastOf(seq, n) ==
    IF Len(seq) > n THEN SubSeq(seq, Len(seq) - n + 1, Len(seq)) ELSE seq

\* faulty variant of BuildMessages: the whole stored history is sent
BuildMessagesWhole(history, question) ==
    Append(history, [role |-> "user", content |-> question])

\* "Build messages with history"
BuildMessages(history, question) ==
    Append(LastOf(history, HistoryWindow), [role |-> "user", content |-> question])

----------------------------------------------------------------------------
(* Strings the validator works on *)

\* a str is a sequence of symbols: a character, or a word standing for its characters
\* the backtick character
TICK == "backtick"

FENCE == <<TICK, TICK, TICK>>

JSON_TAG == <<"j", "s", "o", "n">>

Whitespace == {" ", "\n"}

\* str.strip
Strip(str) ==
    LET at == {i \in 1..Len(str) : str[i] \notin Whitespace}
    IN  IF at = {} THEN <<>>
        ELSE SubSeq(str, CHOOSE i \in at : \A j \in at : i <= j,
                         CHOOSE i \in at : \A j \in at : i >= j)

\* str.startswith
StartsWith(str, prefix) ==
    Len(str) >= Len(prefix) /\ SubSeq(str, 1, Len(prefix)) = prefix

\* str.find: where sep first occurs, 0 when it does not
Find(str, sep) ==
    LET at == {i \in 1..(Len(str) - Len(sep) + 1) : SubSeq(str, i, i + Len(sep) - 1) = sep}
    IN  IF at = {} THEN 0 ELSE CHOOSE i \in at : \A j \in at : i <= j

\* str.split(sep)
RECURSIVE Split(_, _)
Split(str, sep) ==
    LET p == Find(str, sep)
    IN  IF p = 0 THEN <<str>>
        ELSE <<SubSeq(str, 1, p - 1)>> \o Split(SubSeq(str, p + Len(sep), Len(str)), sep)

\* lines 1530-1535: "Clean up response - sometimes Claude adds markdown"
CleanMessage(assistant_message) ==
    LET stripped == Strip(assistant_message)
        unfenced == IF StartsWith(stripped, FENCE)
                    THEN LET inner == Split(stripped, FENCE)[2]
                         IN  IF StartsWith(inner, JSON_TAG)
                             THEN SubSeq(inner, 5, Len(inner))
                             ELSE inner
                    ELSE stripped
    IN  Strip(unfenced)

----------------------------------------------------------------------------
(* The engine's texts and the response validator *)

\* JSON values; a dict is an "obj" holding a function, a str holds its symbols
JNull == [t |-> "null"]

JStr(s) == [t |-> "str", v |-> s]

JBool(b) == [t |-> "bool", v |-> b]

JObj(f) == [t |-> "obj", v |-> f]

\* the array []
JArr == [t |-> "arr"]

\* an intent of the format the system prompt asks for
Intent(core, client) ==
    JObj([coreRequest |-> JStr(core), modifiers |-> JObj([client |-> client]),
          searchTerms |-> JArr, understood |-> JBool(TRUE)])

SKY_INTENT == Intent(<<"FIND">>, JStr(<<"SKY">>))

TOW_INTENT == Intent(<<"DUE">>, JStr(<<"TOW">>))

CLARIFY_INTENT == Intent(<<"CLARIFY">>, JNull)

\* an intent whose client is the empty string
BLANK_INTENT == Intent(<<"QUERY">>, JStr(<<>>))

\* an intent whose responseText holds a triple backtick
TICKS_INTENT ==
    JObj([coreRequest |-> JStr(<<"HELP">>), modifiers |-> JObj([client |-> JNull]),
          searchTerms |-> JArr, understood |-> JBool(TRUE),
          responseText |-> JStr(<<"Use", " ">> \o FENCE \o <<"sql">> \o FENCE)])

\* JSON that is no intent: null modifiers, an unknown request without the
\* other fields, and an array
NULL_MODIFIERS == JObj([coreRequest |-> JStr(<<"FIND">>), modifiers |-> JNull])

BANANA == JObj([coreRequest |-> JStr(<<"BANANA">>)])

\* the JSON documents of the model
JsonValues ==
    {SKY_INTENT, TOW_INTENT, CLARIFY_INTENT, BLANK_INTENT, TICKS_INTENT,
     NULL_MODIFIERS, BANANA, JArr}

\* the order in which an object's members are written
KeyOrder ==
    <<"coreRequest", "modifiers", "client", "searchTerms", "understood", "responseText">>

RECURSIVE Join(_)
Join(parts) ==
    IF parts = <<>> THEN <<>>
    ELSE IF Len(parts) = 1 THEN parts[1]
    ELSE parts[1] \o <<",">> \o Join(Tail(parts))

\* the JSON text of a value
RECURSIVE JsonText(_)
JsonText(value) ==
    CASE value.t = "null" -> <<"null">>
      [] value.t = "bool" -> IF value.v THEN <<"true">> ELSE <<"false">>
      [] value.t = "str" -> <<"\"">> \o value.v \o <<"\"">>
      [] value.t = "arr" -> <<"[", "]">>
      [] value.t = "obj" ->
            LET keys == SelectSeq(KeyOrder, LAMBDA k : k \in DOMAIN value.v)
            IN  <<"{">>
                \o Join([i \in 1..Len(keys) |->
                            <<"\"", keys[i], "\"", ":">> \o JsonText(value.v[keys[i]])])
                \o <<"}">>

\* a text that is no JSON, and the '' of a response without a text block
PROSE == <<"Sure,", " ", "here", " ", "you", " ", "go!">>

EMPTY_TEXT == <<>>

\* the text between a fence tagged json and a closing fence, each on its own line
FencedJson(text) == FENCE \o JSON_TAG \o <<"\n">> \o text \o <<"\n">> \o FENCE

\* the text between two fences, with white space around
FencedPlain(text) == <<"\n">> \o FENCE \o text \o FENCE \o <<" ", "\n">>

\* the texts of the model: prose, JSON documents, and both inside code fences
Texts ==
    {PROSE, FencedPlain(PROSE), FENCE}
    \cup {JsonText(v) : v \in JsonValues}
    \cup {FencedJson(JsonText(v)) : v \in {SKY_INTENT, TICKS_INTENT}}
    \cup {FencedPlain(JsonText(SKY_INTENT))}

\* the text of each document
JsonTexts == [v \in JsonValues |-> JsonText(v)]

\* json.loads on the texts of the model: whether it succeeded, and the value
JsonLoads(text) ==
    IF \E v \in JsonValues : JsonTexts[v] = text
    THEN [ok |-> TRUE, value |-> CHOOSE v \in JsonValues : JsonTexts[v] = text]
    ELSE [ok |-> FALSE]

\* json.loads(clean_message) for each text of the model
LoadsClean == [text \in Texts \cup {EMPTY_TEXT} |-> JsonLoads(CleanMessage(text))]

\* "Extract the text response": the first text block's text, '' when there is none
AssistantMessage(blocks) ==
    LET at == {i \in 1..Len(blocks) : blocks[i].type = "text"}
    IN  IF at = {} THEN EMPTY_TEXT
        ELSE blocks[CHOOSE i \in at : \A j \in at : i <= j].text

\* faulty variant of JTruthy: every value but null counts as true
JTruthyNotNull(v) == v.t # "null"

\* bool(v) of a JSON value
JTruthy(v) ==
    CASE v.t = "null" -> FALSE
      [] v.t = "bool" -> v.v
      [] v.t = "str" -> v.v # <<>>
      [] v.t = "arr" -> FALSE
      [] v.t = "obj" -> DOMAIN v.v # {}

\* str(v) inside an f-string
JFormat(v) == IF v.t = "str" THEN v.v ELSE <<"None">>

\* faulty variant of ContextHint: the hint names the last job alone
ContextHintJobOnly(context) ==
    IF JTruthy(DictGet(context, "lastJob", JNull))
    THEN <<"Last discussed job: ">> \o JFormat(context["lastJob"]) \o <<". ">>
    ELSE <<>>

\* faulty variant of ConversationContext: an empty hint is sent as it is
ConversationContextBlank(context_hint) == context_hint

\* line 1352: the CONVERSATION CONTEXT line of the system prompt
ConversationContext(context_hint) ==
    IF context_hint # <<>> THEN context_hint ELSE <<"Fresh conversation.">>

\* lines 1315-1319: "Build context hint"
ContextHint(context) ==
    LET hint(key, label) ==
            IF JTruthy(DictGet(context, key, JNull))
            THEN <<label>> \o JFormat(context[key]) \o <<". ">>
            ELSE <<>>
    IN  hint("lastClient", "Last discussed client: ")
        \o hint("lastJob", "Last discussed job: ")

Status500 == [status |-> 500, kind |-> "error"]

Status400 == [status |-> 400, kind |-> "error"]

\* faulty variant of ParseFailure: the decode error is not caught on its own and
\* reaches the handler's last except clause
ParseFailureUncaught == [status |-> 500, kind |-> "error"]

\* the return of the JSONDecodeError clause
ParseFailure ==
    [status |-> 200, kind |-> "parse_failure", parsed |-> None,
     error |-> "Could not parse response"]

Parsed(value) == [status |-> 200, kind |-> "parsed", parsed |-> value]

\* the f-string of line 1541, for a parsed object whose modifiers are an object
Summary(parsed) ==
    <<"Parsed: ">>
    \o JFormat(DictGet(parsed.v, "coreRequest", JNull))
    \o <<" for ">>
    \o JFormat(DictGet(DictGet(parsed.v, "modifiers", JObj(EmptyDict)).v,
                       "client", JStr(<<"no client">>)))

\* faulty variant of OnDecodeError: the question was recorded before the text was parsed
OnDecodeErrorRecorded(convs, session_id, question, t) ==
    AddToConversation(convs, session_id, "user", question, t)

\* the store when json.loads raises: lines 1540-1545 are not reached
OnDecodeError(convs, session_id, question, t) == convs

\* lines 1520-1556: from the final content blocks to the store and the response
Validate(convs, session_id, question, blocks, t) ==
    LET loaded == LoadsClean[AssistantMessage(blocks)]
    IN  IF ~loaded.ok
        THEN [convs |-> OnDecodeError(convs, session_id, question, t),
              response |-> ParseFailure]
        ELSE
        LET parsed == loaded.value
            c1 == AddToConversation(convs, session_id, "user", question, t)
        IN  IF parsed.t # "obj"
            THEN [convs |-> c1, response |-> Status500]
            ELSE
            LET mods == DictGet(parsed.v, "modifiers", JObj(EmptyDict))
            IN  IF mods.t # "obj"
                THEN [convs |-> c1, response |-> Status500]
                ELSE
                LET summary == Summary(parsed)
                    c2 == AddToConversation(c1, session_id, "assistant", summary, t)
                    client == DictGet(mods.v, "client", JNull)
                    c3 == IF JTruthy(client)
                          THEN UpdateContext(c2, session_id,
                                             [k \in {"lastClient"} |-> client], t)
                          ELSE c2
                IN  [convs |-> c3, response |-> Parsed(parsed)]

----------------------------------------------------------------------------
(* History variables of the store: they record, they decide nothing *)

\* what the last store call found for its session before it ran
Found(op, sid) ==
    [op |-> op, sid |-> sid,
     had |-> sid \in DOMAIN conversations,
     pre |-> IF sid \in DOMAIN conversations THEN conversations[sid]
             ELSE NewConversation(0),
     dom |-> DOMAIN conversations,
     ret |-> EmptyDict]

NoCall(op) ==
    [op |-> op, sid |-> "", had |-> FALSE, pre |-> NewConversation(0), dom |-> {},
     ret |-> EmptyDict]

\* a stored session keeps its log while it lives; a session created anew starts an empty one
LogAfter(convs2) ==
    [s \in DOMAIN convs2 |->
        IF s \in DOMAIN conversations /\ now - conversations[s].last_active <= 1800
        THEN log[s] ELSE <<>>]

TotalAppended ==
    LET n(s) == IF s \in DOMAIN log THEN Len(log[s]) ELSE 0
    IN  n("s1") + n("s2")

----------------------------------------------------------------------------
(* The store's operations, called one at a time *)

GetConv(sid) ==
    /\ conversations' = GetConversation(conversations, sid, now)
    /\ log' = LogAfter(conversations')
    /\ lastOp' = Found("get_conversation", sid)
    /\ UNCHANGED <<now, apiKey, threads, resolved, queryVars>>

\* entries are numbered in append order; user and assistant entries alternate
\* as in claude_parse's two calls
AddToConv(sid, bound) ==
    /\ TotalAppended < bound
    /\ LET kept == LogAfter(GetConversation(conversations, sid, now))
           n == Len(kept[sid]) + 1
           role == IF n % 2 = 1 THEN "user" ELSE "assistant"
       IN  /\ conversations' = AddToConversation(conversations, sid, role, n, now)
           /\ log' = [kept EXCEPT ![sid] = Append(@, [role |-> role, content |-> n])]
    /\ lastOp' = Found("add_to_conversation", sid)
    /\ UNCHANGED <<now, apiKey, threads, resolved, queryVars>>

UpdContext(sid, c) ==
    /\ conversations' = UpdateContext(conversations, sid, [k \in {"lastClient"} |-> c], now)
    /\ log' = LogAfter(conversations')
    /\ lastOp' = Found("update_context", sid)
    /\ UNCHANGED <<now, apiKey, threads, resolved, queryVars>>

ClearStore(sid) ==
    /\ conversations' = ClearSessionReturn(conversations, sid).convs
    /\ log' = [s \in DOMAIN conversations' |-> log[s]]
    /\ lastOp' = [Found("clear_session", sid) EXCEPT
                      !.ret = ClearSessionReturn(conversations, sid).response]
    /\ UNCHANGED <<now, apiKey, threads, resolved, queryVars>>

Tick(d) ==
    /\ now + d <= MaxNow
    /\ now' = now + d
    /\ lastOp' = NoCall("tick")
    /\ UNCHANGED <<conversations, log, apiKey, threads, resolved, queryVars>>

InitStore ==
    /\ conversations = [s \in {} |-> NewConversation(0)]
    /\ now = 0
    /\ log = [s \in {} |-> <<>>]
    /\ lastOp = NoCall("init")


----------------------------------------------------------------------------
(* The engine's responses of the model *)

\* a response holds at most this many content blocks
MaxBlocks == 2

ToolInputs == {EmptyDict, [k \in {"client_code"} |-> "SKY"]}

ToolShapes ==
    {[type |-> "tool_use", name |-> n, input |-> inp] :
        n \in EngineToolNames, inp \in ToolInputs}

TextShapes(texts) == {[type |-> "text", text |-> T] : T \in texts}

\* each tool_use block gets the id of its place in the response
WithIds(shapes) ==
    [i \in 1..Len(shapes) |->
        IF shapes[i].type = "tool_use"
        THEN [type |-> "tool_use", name |-> shapes[i].name,
              input |-> shapes[i].input, id |-> i]
        ELSE shapes[i]]

Contents(shapes) ==
    {WithIds(c) : c \in UNION {[1..n -> shapes] : n \in 0..MaxBlocks}}

\* a response asking for tools: tool calls, with or without a text before them
ToolUseContents == Contents(ToolShapes \cup TextShapes({PROSE}))

\* a response that answers: no block, one or two; texts, with or without a
\* tool call among them
AnswerShapes ==
    TextShapes(Texts)
    \cup {[type |-> "tool_use", name |-> "search_people", input |-> EmptyDict]}

\* the blocks of the two-block answers
PairShapes ==
    TextShapes({PROSE, JsonText(SKY_INTENT)})
    \cup {[type |-> "tool_use", name |-> "search_people", input |-> EmptyDict]}

AnswerContents ==
    {<<>>} \cup {WithIds(<<a>>) : a \in AnswerShapes}
           \cup {WithIds(<<a, b>>) : a, b \in PairShapes}

\* the answers of round 2: no block, one block, a tool call before the text
Round2Contents ==
    {<<>>} \cup {WithIds(<<a>>) : a \in PairShapes}
           \cup {WithIds(<<[type |-> "tool_use", name |-> "search_people",
                            input |-> EmptyDict],
                           [type |-> "text", text |-> FencedJson(JsonText(SKY_INTENT))]>>)}

AnswerStops == {"end_turn", "tool_use"}

----------------------------------------------------------------------------
(* claude_parse, a step for each stretch between two network calls *)

NoRequest == Body({}, <<>>, "", "", "", TRUE)

NoTally == [calls |-> 0, tool_use |-> 0, executed |-> 0]

InitQuery ==
    /\ pc = "idle"
    /\ req = NoRequest
    /\ sent = <<>>
    /\ outcomes = <<>>
    /\ content_blocks = <<>>
    /\ idx = 0
    /\ tool_results = <<>>
    /\ executed = <<>>
    /\ responses = <<>>
    /\ tally = NoTally
    /\ nq = 0
    /\ conv = <<>>
    /\ final = <<>>
    /\ threads = <<>>
    /\ resolved = {}

\* the handler returns: its local variables are gone
Return(response) ==
    /\ pc' = "done"
    /\ responses' = Append(responses, response)
    /\ sent' = <<>>
    /\ content_blocks' = <<>>
    /\ idx' = 0
    /\ tool_results' = <<>>
    /\ executed' = <<>>

\* the messages of the last request posted
messages == sent[Len(sent)].messages

\* requests.post
Post(request) ==
    /\ sent' = Append(sent, request)
    /\ tally' = [tally EXCEPT !.calls = @ + 1]

\* history: of the sessions rs, those that a call of get_conversation at time t keeps
StillStored(rs, convs, t) ==
    {s \in rs : s \in DOMAIN convs /\ ~Expired(convs[s], t)}

\* history: the response returns an intent whose modifiers.client names a client
ResolvedClient(response) ==
    /\ response.kind = "parsed"
    /\ LET mods == DictGet(response.parsed.v, "modifiers", JObj(EmptyDict))
           client == DictGet(mods.v, "client", JNull)
       IN  client.t = "str" /\ client.v # <<>>

\* faulty variant of StoreAfterBuild: messages is the stored list itself, and the
\* question is appended to it
StoreAfterBuildAliased(convs, session_id, question) ==
    [convs EXCEPT ![session_id].messages =
        Append(@, [role |-> "user", content |-> question])]

\* the store after lines 1414-1418: messages is a new list, the stored one is not touched
StoreAfterBuild(convs, session_id, question) == convs

\* lines 1291-1454: validation, the session, the first request
Submit(data) ==
    /\ pc = "idle"
    /\ req' = data
    /\ nq' = nq + 1
    /\ UNCHANGED <<now, log, lastOp, apiKey, threads, outcomes, final>>
    /\ IF NoQuestion(data)
       THEN /\ Return(Status400)
            /\ UNCHANGED <<conversations, tally, conv, resolved>>
       ELSE IF ~apiKey
       THEN /\ Return(Status500)
            /\ UNCHANGED <<conversations, tally, conv, resolved>>
       ELSE LET convs == GetConversation(conversations, SessionId(data), now)
                history == convs[SessionId(data)].messages
                context == convs[SessionId(data)].context
            IN  /\ conversations' = StoreAfterBuild(convs, SessionId(data), Question(data))
                /\ conv' = <<[messages |-> history, context |-> context]>>
                /\ resolved' = StillStored(resolved, conversations, now)
                /\ Post([messages |-> BuildMessages(history, Question(data)),
                         tools |-> AvailableTools(Question(data), TrackerAccess(data)),
                         context_hint |-> ContextHint(context),
                         conversation_context |-> ConversationContext(ContextHint(context))])
                /\ pc' = "round1"
                /\ UNCHANGED <<responses, content_blocks, idx, tool_results, executed>>

\* lines 1520-1556 on the final content blocks
Finish(stop, content) ==
    LET v == Validate(conversations, SessionId(req), Question(req), content, now)
    IN  /\ outcomes' = Append(outcomes, stop)
        /\ final' = <<AssistantMessage(content)>>
        /\ conversations' = v.convs
        /\ resolved' =
               IF v.response.kind = "parse_failure" THEN resolved
               ELSE StillStored(resolved, conversations, now)
                    \cup (IF ResolvedClient(v.response) THEN {SessionId(req)} ELSE {})
        /\ Return(v.response)

\* faulty variant of EngineFailure: the failed post is sent again
EngineFailureRetrying ==
    /\ outcomes' = Append(outcomes, "failed")
    /\ Post(sent[Len(sent)])
    /\ UNCHANGED <<conversations, now, log, lastOp, apiKey, threads, resolved, pc, req, conv, content_blocks,
                   idx, tool_results, executed, responses, nq, final>>

\* a post raises (network error, or raise_for_status): line 1554
EngineFailure ==
    /\ outcomes' = Append(outcomes, "failed")
    /\ Return(Status500)
    /\ UNCHANGED <<conversations, now, log, lastOp, apiKey, threads, resolved, req, conv, tally, nq, final>>

\* the first post raises
Round1Fail ==
    /\ pc = "round1"
    /\ EngineFailure

\* the first response does not ask for tools
Round1Answer(stop, content) ==
    /\ pc = "round1"
    /\ stop # "tool_use"
    /\ Finish(stop, content)
    /\ UNCHANGED <<now, log, lastOp, apiKey, threads, req, conv, tally, nq>>

\* the blocks of type tool_use, in order
ToolUseBlocks(blocks) == SelectSeq(blocks, LAMBDA b : b.type = "tool_use")

\* the first response has stop_reason tool_use
Round1ToolUse(content) ==
    /\ pc = "round1"
    /\ outcomes' = Append(outcomes, "tool_use")
    /\ content_blocks' = content
    /\ tool_results' = <<>>
    /\ idx' = 1
    /\ pc' = "tools"
    /\ tally' = [tally EXCEPT !.tool_use = Len(ToolUseBlocks(content))]
    /\ UNCHANGED <<conversations, now, log, lastOp, apiKey, threads, resolved, req, conv, sent,
                   executed, responses, nq, final>>

\* faulty variant of CollectResult: the newest result is put first
CollectResultFirst(results, entry) == <<entry>> \o results

\* tool_results.append
CollectResult(results, entry) == Append(results, entry)

\* the loop body on a tool_use block: rewrite, execute, collect
ExecuteBlock(dataOk) ==
    /\ pc = "tools"
    /\ idx <= Len(content_blocks)
    /\ content_blocks[idx].type = "tool_use"
    /\ LET block == content_blocks[idx]
           tool_input == EnforceClient(UserMode(req), UserClient(req),
                                       block.name, block.input)
           ran == ExecuteTool(block.name, tool_input, dataOk)
       IN  /\ tally' = [tally EXCEPT !.executed = @ + 1]
           /\ IF ran.raised
              THEN Return(Status500)
              ELSE /\ executed' = Append(executed,
                                         [id |-> block.id, name |-> block.name,
                                          asked |-> block.input, input |-> tool_input,
                                          result |-> ran.result, writes |-> ran.writes])
                   /\ content_blocks' = [content_blocks EXCEPT ![idx].input = tool_input]
                   /\ tool_results' = CollectResult(tool_results,
                                                    ToolResultEntry(block.id, ran.result))
                   /\ idx' = idx + 1
                   /\ UNCHANGED <<pc, sent, responses>>
    /\ UNCHANGED <<conversations, now, log, lastOp, apiKey, threads, resolved, req, conv, outcomes, nq, final>>

\* the loop passes over a block that is no tool_use
SkipBlock ==
    /\ pc = "tools"
    /\ idx <= Len(content_blocks)
    /\ content_blocks[idx].type # "tool_use"
    /\ idx' = idx + 1
    /\ UNCHANGED <<conversations, now, log, lastOp, apiKey, threads, resolved, pc, req, conv, sent, outcomes,
                   content_blocks, tool_results, executed, responses, tally, nq, final>>

\* lines 1491-1514: the second request
Round2Request ==
    /\ pc = "tools"
    /\ idx > Len(content_blocks)
    /\ Post([messages |-> messages \o
                 <<[role |-> "assistant", content |-> content_blocks],
                   [role |-> "user", content |-> Append(tool_results, REMINDER)]>>,
             tools |-> NoTools,
             context_hint |-> sent[1].context_hint,
             conversation_context |-> sent[1].conversation_context])
    /\ pc' = "round2"
    /\ UNCHANGED <<conversations, now, log, lastOp, apiKey, threads, resolved, req, conv, outcomes,
                   content_blocks, idx, tool_results, executed, responses, nq, final>>

\* the second post raises
Round2Fail ==
    /\ pc = "round2"
    /\ EngineFailure

\* faulty variant of Round2Response: a tool_use signal in round 2 starts the tool loop again
Round2ResponseLooping(stop, content) ==
    /\ pc = "round2"
    /\ IF stop = "tool_use"
       THEN /\ outcomes' = Append(outcomes, stop)
            /\ content_blocks' = content
            /\ tool_results' = <<>>
            /\ idx' = 1
            /\ pc' = "tools"
            /\ UNCHANGED <<conversations, sent, executed, responses, final, resolved>>
       ELSE Finish(stop, content)
    /\ UNCHANGED <<now, log, lastOp, apiKey, threads, req, conv, tally, nq>>

\* the second response, whatever its stop_reason
Round2Response(stop, content) ==
    /\ pc = "round2"
    /\ Finish(stop, content)
    /\ UNCHANGED <<now, log, lastOp, apiKey, threads, req, conv, tally, nq>>

\* the next request is taken up
NextRequest(bound) ==
    /\ pc = "done"
    /\ nq < bound
    /\ pc' = "idle"
    /\ req' = NoRequest
    /\ conv' = <<>>
    /\ final' = <<>>
    /\ outcomes' = <<>>
    /\ responses' = <<>>
    /\ tally' = NoTally
    /\ UNCHANGED <<conversations, now, log, lastOp, apiKey, threads, resolved, sent, content_blocks,
                   idx, tool_results, executed, nq>>

\* the handler of /claude/clear
ClearSession(sid) ==
    /\ conversations' = ClearSessionReturn(conversations, sid).convs
    /\ resolved' = resolved \ {sid}
    /\ UNCHANGED <<now, log, lastOp, apiKey, threads>>
    /\ UNCHANGED queryVars

\* time passes
Advance(d) ==
    /\ now + d <= MaxNow
    /\ now' = now + d
    /\ UNCHANGED <<conversations, log, lastOp, apiKey, threads, resolved>>
    /\ UNCHANGED queryVars

Init ==
    /\ InitStore
    /\ InitQuery
    /\ apiKey \in BOOLEAN

\* one query, for every request body and every response of the engine
Next ==
    \/ \E data \in RequestBodies({"s1"}) : Submit(data)
    \/ Round1Fail
    \/ \E stop \in {"end_turn", "max_tokens"}, content \in AnswerContents :
           Round1Answer(stop, content)
    \/ \E content \in ToolUseContents : Round1ToolUse(content)
    \/ \E dataOk \in BOOLEAN : ExecuteBlock(dataOk)
    \/ SkipBlock
    \/ Round2Request
    \/ Round2Fail
    \/ \E stop \in AnswerStops, content \in Round2Contents : Round2Response(stop, content)

Spec == Init /\ [][Next]_vars

\* the steps of a query in flight
QuerySteps ==
    \/ Round1Fail
    \/ \E stop \in {"end_turn", "max_tokens"}, content \in AnswerContents :
           Round1Answer(stop, content)
    \/ \E content \in ToolUseContents : Round1ToolUse(content)
    \/ \E dataOk \in BOOLEAN : ExecuteBlock(dataOk)
    \/ SkipBlock
    \/ Round2Request
    \/ Round2Fail
    \/ \E stop \in AnswerStops, content \in Round2Contents : Round2Response(stop, content)

\* the handler's thread keeps running, and every post returns or raises
FairSpec == Spec /\ WF_vars(QuerySteps)

\* the bodies of the queries on two sessions: a question, an empty question,
\* no question, no session id
SessionBodies ==
    { Body({"question", "sessionId"}, Q_JOBS, sid, "hunch", "", TRUE) : sid \in SessionIds }
    \cup { Body(AllKeys, <<>>, sid, "client", "TOW", TRUE) : sid \in SessionIds }
    \cup { Body({"sessionId"}, <<>>, sid, "hunch", "", TRUE) : sid \in SessionIds }
    \cup { Body({"question"}, Q_JOBS, "", "hunch", "", TRUE) }

\* the engine's answers to them, of one text block
SessionTexts ==
    {PROSE} \cup {JsonText(v) : v \in {SKY_INTENT, TOW_INTENT, CLARIFY_INTENT,
                                        BLANK_INTENT, NULL_MODIFIERS}}

SessionContents == {WithIds(<<a>>) : a \in TextShapes(SessionTexts)}

\* queries one after another on two sessions, the engine answering at once,
\* with sessions cleared and time passing in between
NextSession ==
    \/ \E data \in SessionBodies : Submit(data)
    \/ Round1Fail
    \/ \E stop \in {"end_turn"}, content \in SessionContents : Round1Answer(stop, content)
    \/ NextRequest(MaxQueries)
    \/ \E sid \in SessionIds : ClearSession(sid)
    \/ \E d \in TickSteps : Advance(d)

SpecSession == Init /\ [][NextSession]_vars

----------------------------------------------------------------------------
(* The store's functions, called one at a time *)

\* the store's functions called on their own: no query is in flight
InitStoreOnly ==
    /\ InitStore
    /\ InitQuery
    /\ apiKey = TRUE

NextStore ==
    \/ \E sid \in SessionIds : GetConv(sid)
    \/ \E sid \in SessionIds : AddToConv(sid, MaxStoreAppends)
    \/ \E sid \in SessionIds, c \in ClientCodes : UpdContext(sid, c)
    \/ \E sid \in SessionIds : ClearStore(sid)
    \/ \E d \in TickSteps : Tick(d)

SpecStore == InitStoreOnly /\ [][NextStore]_vars

\* one session, appended to until it is trimmed
NextHistory ==
    \/ GetConv("s1")
    \/ AddToConv("s1", MaxAppends)
    \/ ClearStore("s1")
    \/ \E d \in TickSteps : Tick(d)

SpecHistory == InitStoreOnly /\ [][NextHistory]_vars

----------------------------------------------------------------------------
(* Claims about the session store *)

StoreCalls == {"get_conversation", "add_to_conversation", "update_context"}

\* C1: get_conversation(s) keeps the stored session, messages and context
\* unchanged and last_active set to the current time, if and only if the time
\* since its last_active is at most 1800 s; otherwise (older, or absent) the
\* call leaves a fresh session with empty messages and empty context.
C1_TTLExpiry ==
    lastOp.op = "get_conversation" =>
        /\ lastOp.sid \in DOMAIN conversations
        /\ IF lastOp.had /\ now - lastOp.pre.last_active <= 1800
           THEN conversations[lastOp.sid] =
                    [messages |-> lastOp.pre.messages,
                     context |-> lastOp.pre.context,
                     last_active |-> now]
           ELSE conversations[lastOp.sid] =
                    [messages |-> <<>>, context |-> EmptyDict, last_active |-> now]

\* a session with messages and context, idle for 31 minutes, was replaced by a fresh one
C1_Witness ==
    /\ lastOp.op = "get_conversation"
    /\ lastOp.had
    /\ now - lastOp.pre.last_active = 1860
    /\ lastOp.pre.messages # <<>>
    /\ lastOp.pre.context # EmptyDict
    /\ conversations[lastOp.sid].messages = <<>>
    /\ conversations[lastOp.sid].context = EmptyDict

\* C2: right after any get_conversation call (also the ones inside
\* add_to_conversation and update_context) no stored session is older than
\* 30 minutes: the sweep removes every expired session, not only the requested one.
C2_SweepAll ==
    lastOp.op \in StoreCalls =>
        \A s \in DOMAIN conversations : now - conversations[s].last_active <= 1800

\* an add_to_conversation call for one session removed another, expired, session
C2_Witness ==
    /\ lastOp.op = "add_to_conversation"
    /\ \E s \in lastOp.dom : s # lastOp.sid /\ s \notin DOMAIN conversations

\* the last n entries of a sequence
LastEntries(seq, n) ==
    LET k == IF Len(seq) < n THEN Len(seq) ELSE n
    IN  [i \in 1..k |-> seq[Len(seq) - k + i]]

\* C3: a live session's messages are the last min(n, 20) of the n entries
\* appended to it, in append order; never more than 20.
C3_HistoryBound ==
    \A s \in DOMAIN conversations :
        /\ Len(conversations[s].messages) <= 20
        /\ conversations[s].messages = LastEntries(log[s], 20)

\* 22 entries (11 exchanges) appended: entries 3 to 22 (exchanges 2 to 11) remain
C3_Witness ==
    /\ "s1" \in DOMAIN conversations
    /\ Len(log["s1"]) = 22
    /\ Len(conversations["s1"].messages) = 20
    /\ conversations["s1"].messages[1].content = 3
    /\ conversations["s1"].messages[20].content = 22

----------------------------------------------------------------------------
(* Claims about the tool protocol of claude_parse *)

Registry == {"search_people", "get_client_detail", "get_spend_summary"}

\* the request is a client viewer's, bound to client code TOW
BoundToTOW ==
    /\ "userMode" \in req.has /\ req.userMode = "client"
    /\ "userClient" \in req.has /\ req.userClient = "TOW"

\* C4: in client-viewer mode with bound client code C, every tool call of
\* round 1 whose input holds a client_code is executed with client_code = C,
\* whatever the engine asked for.
C4_PermissionRewriting ==
    BoundToTOW =>
        \A i \in 1..Len(executed) :
            "client_code" \in DOMAIN executed[i].asked =>
                /\ "client_code" \in DOMAIN executed[i].input
                /\ executed[i].input["client_code"] = "TOW"
                /\ "clientCode" \in DOMAIN executed[i].result =>
                       executed[i].result.clientCode = "TOW"

\* a session bound to TOW: the engine asked for SKY, the lookup ran for TOW
C4_Witness ==
    /\ BoundToTOW
    /\ \E i \in 1..Len(executed) :
          /\ executed[i].name \in Registry
          /\ "client_code" \in DOMAIN executed[i].asked
          /\ executed[i].asked["client_code"] = "SKY"
          /\ "clientCode" \in DOMAIN executed[i].result
          /\ executed[i].result.clientCode = "TOW"

\* C5: for a query in client-viewer mode, no tool of the registry is executed
\* with a client_code other than the caller's bound client code, whatever the
\* engine's response, also when the tool input holds no client_code and when
\* the request's userClient is missing.
C5_NoCrossClient ==
    ("userMode" \in req.has /\ req.userMode = "client") =>
        \A i \in 1..Len(executed) :
            executed[i].name \in Registry =>
                /\ "userClient" \in req.has
                /\ "client_code" \in DOMAIN executed[i].input
                /\ executed[i].input["client_code"] = req.userClient

\* what holds of a query in every state
C6_Safe ==
    /\ tally.calls <= 2
    /\ Len(responses) <= 1
    /\ (pc = "done") = (Len(responses) = 1)
    /\ tally.calls = 2 => outcomes[1] = "tool_use"
    /\ (pc = "done" /\ outcomes # <<>> /\ outcomes[1] = "tool_use") => tally.calls = 2
    /\ tally.executed > 0 => (outcomes # <<>> /\ outcomes[1] = "tool_use")
    /\ Len(sent) = 2 => (sent[2].tools = <<>> /\ tally.executed = tally.tool_use)
    /\ (Len(outcomes) = 2 /\ outcomes[2] = "tool_use") =>
           (pc = "done" /\ tally.calls = 2 /\ tally.executed = tally.tool_use)

\* a tool is executed only after the first post and before the second
C6_ToolsBetween ==
    tally'.executed # tally.executed =>
        (tally.calls = 1 /\ tally'.calls = 1 /\ Len(outcomes) = 1)

\* C6: every accepted query ends with exactly one response after at most two
\* engine invocations; the second happens if and only if the first response
\* has stop_reason tool_use; tools are executed only between the two; the
\* second request carries no tools; a tool_use signal in the second response
\* triggers neither an execution nor a third invocation.
C6_TwoRounds ==
    /\ []C6_Safe
    /\ [][C6_ToolsBetween]_vars
    /\ (pc \in {"round1", "tools", "round2"}) ~> (pc = "done")

\* a query that went through both rounds, the second ending on tool_use
C6_Witness ==
    /\ pc = "done"
    /\ outcomes = <<"tool_use", "tool_use">>
    /\ tally = [calls |-> 2, tool_use |-> 2, executed |-> 2]
    /\ Len(responses) = 1

\* the tool_use blocks among blocks, in order
C7_ToolUses(blocks) == SelectSeq(blocks, LAMBDA b : b.type = "tool_use")

\* C7: each tool_use block of round 1 is executed exactly once, in block
\* order, and the round-2 user message holds exactly one tool_result per
\* tool_use block, in the same order, with its block's id, then the reminder;
\* other blocks produce no result.
C7_OneResultPerCall ==
    /\ pc = "tools" =>
          /\ Len(executed) = Len(tool_results)
          /\ Len(executed) <= Len(C7_ToolUses(content_blocks))
          /\ \A i \in 1..Len(executed) :
                executed[i].id = C7_ToolUses(content_blocks)[i].id
    /\ Len(sent) = 2 =>
          LET msgs == sent[2].messages
              uses == C7_ToolUses(msgs[Len(msgs) - 1].content)
              results == msgs[Len(msgs)].content
          IN  /\ msgs[Len(msgs) - 1].role = "assistant"
              /\ msgs[Len(msgs)].role = "user"
              /\ Len(results) = Len(uses) + 1
              /\ results[Len(results)].type = "text"
              /\ \A i \in 1..Len(uses) :
                    /\ results[i].type = "tool_result"
                    /\ results[i].tool_use_id = uses[i].id
                    /\ executed[i].id = uses[i].id
                    /\ executed[i].name = uses[i].name
              /\ Len(executed) = Len(uses)
              /\ tally.executed = Len(uses)

\* two tool calls were executed and their two results sent, in order
C7_Witness ==
    /\ pc = "round2"
    /\ Len(executed) = 2
    /\ executed[1].name # executed[2].name
    /\ sent[2].messages[Len(sent[2].messages)].content[2].tool_use_id = 2

\* C8: a tool call never aborts the protocol: whether the tool is registered,
\* unknown or failing, a result mapping is collected for it (for an unknown
\* name, {error: "Unknown tool: <name>"}) and round 2 is invoked; no query
\* ends between a tool_use response and the second post.
C8_ToolsNeverAbort ==
    /\ (pc = "done" /\ outcomes # <<>> /\ outcomes[1] = "tool_use") => tally.calls = 2
    /\ pc \in {"tools", "round2"} =>
          /\ Len(tool_results) = tally.executed
          /\ \A i \in 1..Len(tool_results) :
                LET r == tool_results[i].content.json
                IN  IF executed[i].name \in Registry
                    THEN "error" \in DOMAIN r \/ "tool" \in DOMAIN r
                    ELSE r = [error |-> <<"Unknown tool: ", executed[i].name>>]
    /\ pc = "round2" =>
          LET last == sent[2].messages[Len(sent[2].messages)].content
          IN  \A i \in 1..tally.tool_use : last[i] = tool_results[i]

\* round 2 was invoked with the results of an unknown tool and of a failed lookup
C8_Witness ==
    /\ pc = "round2"
    /\ \E i, j \in 1..Len(tool_results) :
          /\ executed[i].name = "reserve_job_number"
          /\ tool_results[i].content.json = [error |-> <<"Unknown tool: ", "reserve_job_number">>]
          /\ executed[j].name \in Registry
          /\ "error" \in DOMAIN tool_results[j].content.json

\* C9: a failed engine invocation ends the query with a server error: it is
\* the last invocation (not repeated, a failed round 1 followed by no round 2
\* and no tool execution).
C9_EngineFailureEnds ==
    \A i \in 1..Len(outcomes) :
        outcomes[i] = "failed" =>
            /\ i = Len(outcomes)
            /\ tally.calls = i
            /\ pc = "done"
            /\ Len(responses) = 1
            /\ responses[1].status = 500
            /\ i = 1 => tally.executed = 0

\* round 2 failed after the tools had run: one response, a server error
C9_Witness ==
    /\ outcomes = <<"tool_use", "failed">>
    /\ tally.calls = 2
    /\ tally.executed > 0
    /\ responses = <<[status |-> 500, kind |-> "error"]>>

\* C10: a query whose question is missing or empty is answered with status
\* 400 before any engine invocation, and the session store is left as it
\* was: no session is created, swept or refreshed.
C10_RejectedEarly ==
    [][(pc = "idle" /\ pc' # "idle" /\ req'.question = <<>>) =>
           /\ pc' = "done"
           /\ Len(responses') = 1
           /\ responses'[1].status = 400
           /\ tally'.calls = 0
           /\ conversations' = conversations]_vars

\* a rejected request left an expired session in the store and created none
C10_Witness ==
    /\ pc = "done"
    /\ "question" \in req.has
    /\ req.question = <<>>
    /\ responses[1].status = 400
    /\ req.sessionId \notin DOMAIN conversations
    /\ \E s \in DOMAIN conversations : now - conversations[s].last_active > 1800

----------------------------------------------------------------------------
(* Claims about validation and the response validator *)

\* the request carries a question and no session id
C11_NoSessionId(data) ==
    /\ "question" \in data.has
    /\ data.question # <<>>
    /\ "sessionId" \notin data.has

\* C11 as claimed: a query with a question but no session id is rejected with
\* status 400 before any engine invocation, and no session is read or modified.
C11_NoSessionRejected ==
    C11_NoSessionId(req) =>
        /\ pc = "done"
        /\ responses[1].status = 400
        /\ tally.calls = 0
        /\ "default" \notin DOMAIN conversations

\* C11 as amended: a query with a question but no session id is not rejected
\* for that: with the engine key configured it is handled on the session
\* named "default", created or refreshed after the sweep, and the engine is invoked.
C11_DefaultSession ==
    [][(pc = "idle" /\ pc' # "idle" /\ C11_NoSessionId(req') /\ apiKey) =>
           /\ pc' = "round1"
           /\ tally'.calls = 1
           /\ "default" \in DOMAIN conversations'
           /\ conversations'["default"].last_active = now
           /\ conversations'["default"].messages = conv'[1].messages
           /\ sent'[1].messages =
                  LastEntries(conv'[1].messages, 10)
                  \o <<[role |-> "user", content |-> req'.question]>>
           /\ \A s \in DOMAIN conversations' :
                  now - conversations'[s].last_active <= 1800]_vars

\* the second query without a session id found the turn of the first
C11_Witness ==
    /\ C11_NoSessionId(req)
    /\ pc = "round1"
    /\ Len(conv[1].messages) = 2
    /\ Len(sent[1].messages) = 3
    /\ conversations["default"].messages = conv[1].messages

\* the texts of the model that are no JSON, in or out of a code fence
C12_NotJson == {PROSE, FencedPlain(PROSE), FENCE, EMPTY_TEXT}

\* C12: when the final text is not valid JSON after fence stripping, also
\* when the final response has no text block, the query returns status 200
\* with parsed = null and a non-empty error message, not a server error.
C12_SoftFail ==
    (pc = "done" /\ final # <<>> /\ final[1] \in C12_NotJson) =>
        /\ Len(responses) = 1
        /\ responses[1].status = 200
        /\ responses[1].parsed = None
        /\ responses[1].error # ""

\* after a tool round the final response held no text block: a soft failure
C12_Witness ==
    /\ pc = "done"
    /\ outcomes = <<"tool_use", "end_turn">>
    /\ final = <<EMPTY_TEXT>>
    /\ responses[1].status = 200
    /\ responses[1].parsed = None

\* C13 as claimed: after a query that ends in a parse failure the session's
\* message history records the user's question of that turn, and no
\* assistant entry for it.
C13_QuestionRecorded ==
    (pc = "done" /\ responses[1].kind = "parse_failure"
     /\ SessionId(req) \in DOMAIN conversations) =>
        LET msgs == conversations[SessionId(req)].messages
        IN  /\ msgs # <<>>
            /\ msgs[Len(msgs)] = [role |-> "user", content |-> req.question]

\* C13 as amended: a query that ends in a parse failure records neither the
\* user's question nor an assistant entry: the step that returns the soft
\* failure leaves every session's messages and context as they were.
C13_NothingRecorded ==
    [][(pc # "done" /\ pc' = "done" /\ responses'[1].kind = "parse_failure") =>
           conversations' = conversations]_vars

\* the second turn on a session ended in a parse failure: the history holds
\* the first turn's two entries alone
C13_Witness ==
    /\ pc = "done"
    /\ nq = 2
    /\ responses[1].kind = "parse_failure"
    /\ SessionId(req) \in DOMAIN conversations
    /\ Len(conversations[SessionId(req)].messages) = 2
    /\ conversations[SessionId(req)].messages = conv[1].messages
    /\ conversations[SessionId(req)].messages[2].role = "assistant"

\* C14: every failing query preserves session state: when a query returns an
\* error or a soft failure (validation failure, engine failure in either
\* round, output that is no JSON, or JSON that is no object of the intent
\* shape), the session's messages and context after the query are those
\* before it. The store starts empty here; conv holds what the query found.
C14_FailurePreserves ==
    (pc = "done" /\ responses[1].kind \in {"error", "parse_failure"}) =>
        IF conv = <<>>
        THEN DOMAIN conversations = {}
        ELSE /\ conversations[SessionId(req)].messages = conv[1].messages
             /\ conversations[SessionId(req)].context = conv[1].context

\* the session a query on sid adds to: the stored one while it lives, else a fresh one
C15_Before(sid) ==
    IF sid \in DOMAIN conversations /\ now - conversations[sid].last_active <= 1800
    THEN [messages |-> conversations[sid].messages, context |-> conversations[sid].context]
    ELSE [messages |-> <<>>, context |-> EmptyDict]

\* modifiers.client of an intent, null when it has none
C15_Client(intent) ==
    IF "modifiers" \in DOMAIN intent.v /\ "client" \in DOMAIN intent.v.modifiers.v
    THEN intent.v.modifiers.v.client
    ELSE JNull

\* the summary of an intent: its request type and its client
C15_Summary(intent) ==
    <<"Parsed: ">>
    \o (IF "coreRequest" \in DOMAIN intent.v THEN intent.v.coreRequest.v ELSE <<"None">>)
    \o <<" for ">>
    \o (IF "modifiers" \in DOMAIN intent.v /\ "client" \in DOMAIN intent.v.modifiers.v
        THEN (IF C15_Client(intent).t = "str" THEN C15_Client(intent).v ELSE <<"None">>)
        ELSE <<"no client">>)

\* the step that returns a parsed intent appends the question and the summary,
\* and sets lastClient when the rule "sets" holds of modifiers.client
C15_Step(sets(_)) ==
    (pc # "done" /\ pc' = "done" /\ responses'[1].kind = "parsed") =>
        LET sid == SessionId(req)
            before == C15_Before(sid)
            intent == responses'[1].parsed
            client == C15_Client(intent)
        IN  /\ conversations'[sid].messages =
                   LastEntries(before.messages
                               \o <<[role |-> "user", content |-> req.question],
                                    [role |-> "assistant", content |-> C15_Summary(intent)]>>,
                               20)
            /\ conversations'[sid].context =
                   IF sets(client)
                   THEN [k \in DOMAIN before.context \cup {"lastClient"} |->
                            IF k = "lastClient" THEN client ELSE before.context[k]]
                   ELSE before.context

C15_NonNull(client) == client.t # "null"

C15_NonEmpty(client) == client.t # "null" /\ client # JStr(<<>>)

\* C15 as claimed: on a successful parse exactly two entries are appended, the
\* user's question and then the assistant's summary of coreRequest and
\* modifiers.client; the context gets lastClient = modifiers.client when it is
\* present and non-null, and is left unchanged otherwise.
C15_ClientWhenNonNull == [][C15_Step(C15_NonNull)]_vars

\* C15 as amended: the same, the context getting lastClient = modifiers.client
\* when it is present, non-null and not the empty string.
C15_ClientWhenNonEmpty == [][C15_Step(C15_NonEmpty)]_vars

\* the second turn resolved TOW after the first resolved SKY: four entries,
\* lastClient overwritten
C15_Witness ==
    /\ pc = "done"
    /\ responses[1] = [status |-> 200, kind |-> "parsed", parsed |-> TOW_INTENT]
    /\ SessionId(req) \in DOMAIN conversations
    /\ Len(conversations[SessionId(req)].messages) = 4
    /\ conv[1].context = [lastClient |-> JStr(<<"SKY">>)]
    /\ conversations[SessionId(req)].context = [lastClient |-> JStr(<<"TOW">>)]
    /\ conversations[SessionId(req)].messages[4].content =
           <<"Parsed: ", "DUE", " for ", "TOW">>

\* an accepted query's first request carries the hint naming the lastClient of
\* the session it found, and no hint when the session has none
C16_Hint ==
    (pc = "idle" /\ pc' = "round1") =>
        LET before == C15_Before(SessionId(req'))
        IN  sent'[1].context_hint =
                IF "lastClient" \in DOMAIN before.context
                THEN <<"Last discussed client: ">> \o before.context.lastClient.v \o <<". ">>
                ELSE <<>>

\* a session's lastClient stays until a successful turn on it resolves another
\* client, the session is cleared, or it has expired and is swept or replaced
C16_Persist ==
    \A s \in DOMAIN conversations :
        "lastClient" \in DOMAIN conversations[s].context =>
            \/ /\ s \in DOMAIN conversations'
               /\ "lastClient" \in DOMAIN conversations'[s].context
               /\ conversations'[s].context.lastClient = conversations[s].context.lastClient
            \/ /\ pc # "done" /\ pc' = "done"
               /\ SessionId(req) = s
               /\ responses'[1].kind = "parsed"
               /\ C15_NonEmpty(C15_Client(responses'[1].parsed))
               /\ conversations'[s].context.lastClient = C15_Client(responses'[1].parsed)
            \/ /\ now - conversations[s].last_active > 1800
               /\ s \in DOMAIN conversations' => conversations'[s].last_active = now
            \/ /\ conversations' = [x \in DOMAIN conversations \ {s} |-> conversations[x]]
               /\ pc' = pc /\ now' = now /\ responses' = responses

\* C16: once a turn on session s has resolved client C, every later query on s
\* sends the engine a hint naming C as the last discussed client, until a
\* later successful turn resolves another client, s is cleared or s expires;
\* a successful turn without a client leaves lastClient = C.
C16_CarryOver == [][C16_Hint /\ C16_Persist]_vars

\* the second query on a session whose first turn resolved SKY: its request
\* names SKY as the last discussed client
C16_Witness ==
    /\ pc = "round1"
    /\ nq = 2
    /\ SessionId(req) = "s1"
    /\ conv[1].context = [lastClient |-> JStr(<<"SKY">>)]
    /\ conv[1].messages[2].content = <<"Parsed: ", "FIND", " for ", "SKY">>
    /\ sent[1].context_hint = <<"Last discussed client: ", "SKY", ". ">>

----------------------------------------------------------------------------
(* Claims about clear_session *)

\* C17: clear_session(s) always returns success; after it s is absent from
\* the store; clearing an absent id changes nothing, so that clearing twice
\* leaves the store of clearing once; every other session is left as it was,
\* expired or not (clear performs no sweep).
C17_ClearIdempotent ==
    [][lastOp'.op = "clear_session" =>
           LET s == lastOp'.sid
           IN  /\ lastOp'.ret = [status |-> 200, success |-> TRUE]
               /\ s \notin DOMAIN conversations'
               /\ DOMAIN conversations' = DOMAIN conversations \ {s}
               /\ \A x \in DOMAIN conversations' : conversations'[x] = conversations[x]
               /\ s \notin DOMAIN conversations => conversations' = conversations
               /\ now' = now]_vars

\* an absent id was cleared: success, and the other session, expired, is still stored
C17_Witness ==
    /\ lastOp.op = "clear_session"
    /\ ~lastOp.had
    /\ lastOp.ret.success
    /\ lastOp.dom = DOMAIN conversations
    /\ \E x \in DOMAIN conversations :
          /\ now - conversations[x].last_active > 1800
          /\ conversations[x].messages # <<>>

----------------------------------------------------------------------------
(* Claims about the intent returned *)

C18_CoreRequests ==
    {<<"FIND">>, <<"DUE">>, <<"UPDATE">>, <<"TRACKER">>, <<"HELP">>, <<"CLARIFY">>,
     <<"QUERY">>, <<"HANDOFF">>, <<"LOG">>, <<"UNKNOWN">>}

\* C18: every intent returned with parsed non-null matches the intent shape:
\* its coreRequest is one of the ten request types and the fields modifiers,
\* searchTerms and understood are present, for every engine output that
\* parses as JSON.
C18_IntentShape ==
    (pc = "done" /\ responses[1].kind = "parsed") =>
        LET intent == responses[1].parsed
        IN  /\ intent.t = "obj"
            /\ {"coreRequest", "modifiers", "searchTerms", "understood"} \subseteq DOMAIN intent.v
            /\ intent.v.coreRequest.t = "str"
            /\ intent.v.coreRequest.v \in C18_CoreRequests

\* the ways the model wraps a JSON text
C19_Wrapped(text) == {text, FencedJson(text), FencedPlain(text)}

\* C19: fence tolerance: engine output that is a JSON text J inside a code
\* fence, tagged json or not, with or without white space around, yields the
\* parsed intent and the session update of J alone, also when J holds a
\* triple backtick inside a string value. The session is new here.
C19_FenceTolerance ==
    \A v \in {SKY_INTENT, CLARIFY_INTENT, TICKS_INTENT} :
        (pc = "done" /\ final # <<>> /\ final[1] \in C19_Wrapped(JsonText(v))) =>
            /\ responses[1] = [status |-> 200, kind |-> "parsed", parsed |-> v]
            /\ conversations[SessionId(req)].messages =
                   <<[role |-> "user", content |-> req.question],
                     [role |-> "assistant", content |-> C15_Summary(v)]>>
            /\ conversations[SessionId(req)].context =
                   IF C15_NonEmpty(C15_Client(v))
                   THEN [lastClient |-> C15_Client(v)]
                   ELSE EmptyDict

----------------------------------------------------------------------------
(* Two handler threads in lines 1540-1545 on one session, with no lock:       *)
(* each has its parsed intent and calls add_to_conversation twice, then       *)
(* update_context; a thread may be descheduled between two accesses           *)

Threads == {1, 2}

RaceSession == "s1"

RaceQuestion(t) == IF t = 1 THEN Q_JOBS ELSE Q_EMAIL

RaceParsed(t) == IF t = 1 THEN SKY_INTENT ELSE TOW_INTENT

\* ten earlier exchanges
FullHistory ==
    [i \in 1..MaxMessages |->
        IF i % 2 = 1 THEN [role |-> "user", content |-> <<"earlier question">>]
        ELSE [role |-> "assistant", content |-> <<"Parsed: ", "HELP", " for ", "None">>]]

\* the entry a thread appends in its first and in its second call
RaceEntry(t, call) ==
    IF call = "user" THEN [role |-> "user", content |-> RaceQuestion(t)]
    ELSE [role |-> "assistant", content |-> Summary(RaceParsed(t))]

\* history: thread t takes a step while the other is between its first
\* append and its return
Mixed(t) ==
    threads[t].mixed
    \/ \E o \in Threads \ {t} :
          threads[o].call # "done" /\ ~(threads[o].call = "user" /\ threads[o].step = "append")

\* after a call of add_to_conversation: the next call of lines 1540-1545
AfterCall(call) == IF call = "user" THEN "assistant" ELSE "context"

\* line 59-60: get_conversation, then conv['messages'].append
RaceAppend(t) ==
    /\ threads[t].call \in {"user", "assistant"}
    /\ threads[t].step = "append"
    /\ LET got == GetConversation(conversations, RaceSession, now)
       IN  conversations' = [got EXCEPT ![RaceSession].messages =
                                Append(@, RaceEntry(t, threads[t].call))]
    /\ threads' = [threads EXCEPT ![t].step = "len", ![t].mixed = Mixed(t)]
    /\ UNCHANGED <<now, log, lastOp, apiKey, resolved, queryVars>>

\* line 63: the test of the length
RaceLen(t) ==
    /\ threads[t].step = "len"
    /\ threads' = [threads EXCEPT
                      ![t].step = IF Len(conversations[RaceSession].messages) > MaxMessages
                                  THEN "slice" ELSE "append",
                      ![t].call = IF Len(conversations[RaceSession].messages) > MaxMessages
                                  THEN @ ELSE AfterCall(@),
                      ![t].mixed = Mixed(t)]
    /\ UNCHANGED <<conversations, now, log, lastOp, apiKey, resolved, queryVars>>

\* faulty variant of SliceRead: the oldest entries are taken
SliceReadOldest(msgs) == SubSeq(msgs, 1, MaxMessages)

\* line 64, right-hand side: conv['messages'][-20:] on a list longer than 20
SliceRead(msgs) == SubSeq(msgs, Len(msgs) - MaxMessages + 1, Len(msgs))

\* line 64: the slice is read into a new list
RaceSlice(t) ==
    /\ threads[t].step = "slice"
    /\ threads' = [threads EXCEPT
                      ![t].step = "assign",
                      ![t].tmp = SliceRead(conversations[RaceSession].messages),
                      ![t].mixed = Mixed(t)]
    /\ UNCHANGED <<conversations, now, log, lastOp, apiKey, resolved, queryVars>>

\* line 64: the new list is stored as conv['messages']
RaceAssign(t) ==
    /\ threads[t].step = "assign"
    /\ conversations' = [conversations EXCEPT ![RaceSession].messages = threads[t].tmp]
    /\ threads' = [threads EXCEPT ![t].step = "append", ![t].call = AfterCall(@),
                                  ![t].tmp = <<>>, ![t].mixed = Mixed(t)]
    /\ UNCHANGED <<now, log, lastOp, apiKey, resolved, queryVars>>

\* lines 1544-1545, then the return
RaceContext(t) ==
    /\ threads[t].call = "context"
    /\ LET client == RaceParsed(t).v.modifiers.v.client
       IN  conversations' =
               IF JTruthy(client)
               THEN UpdateContext(conversations, RaceSession,
                                  [k \in {"lastClient"} |-> client], now)
               ELSE conversations
    /\ threads' = [threads EXCEPT ![t].call = "done", ![t].mixed = Mixed(t)]
    /\ UNCHANGED <<now, log, lastOp, apiKey, resolved, queryVars>>

\* both queries found the session, new or holding ten exchanges
InitRace ==
    /\ \E msgs \in {<<>>, FullHistory} :
          /\ conversations =
                 [s \in {RaceSession} |->
                     [messages |-> msgs, context |-> EmptyDict, last_active |-> 0]]
          /\ conv = <<[messages |-> msgs, context |-> EmptyDict]>>
    /\ now = 0
    /\ log = [s \in {} |-> <<>>]
    /\ lastOp = NoCall("init")
    /\ apiKey = TRUE
    /\ resolved = {}
    /\ pc = "idle"
    /\ req = NoRequest
    /\ sent = <<>>
    /\ outcomes = <<>>
    /\ content_blocks = <<>>
    /\ idx = 0
    /\ tool_results = <<>>
    /\ executed = <<>>
    /\ responses = <<>>
    /\ tally = NoTally
    /\ nq = 0
    /\ final = <<>>
    /\ threads = [t \in Threads |->
                     [call |-> "user", step |-> "append", tmp |-> <<>>, mixed |-> FALSE]]

NextRace ==
    \/ \E t \in Threads : RaceAppend(t)
    \/ \E t \in Threads : RaceLen(t)
    \/ \E t \in Threads : RaceSlice(t)
    \/ \E t \in Threads : RaceAssign(t)
    \/ \E t \in Threads : RaceContext(t)

SpecRace == InitRace /\ [][NextRace]_vars

----------------------------------------------------------------------------
(* Claim about concurrent queries *)

\* the store after thread t's turn run as one step
C20_Turn(convs, t) ==
    Validate(convs, RaceSession, RaceQuestion(t),
             <<[type |-> "text", text |-> JsonText(RaceParsed(t))]>>, now).convs

\* the store both queries found
C20_Start ==
    [s \in {RaceSession} |->
        [messages |-> conv[1].messages, context |-> conv[1].context, last_active |-> 0]]

C20_SerialResults ==
    {C20_Turn(C20_Turn(C20_Start, 1), 2), C20_Turn(C20_Turn(C20_Start, 2), 1)}

C20_BothDone == \A t \in Threads : threads[t].call = "done"

\* C20: two queries on one session handled concurrently can leave the store
\* in a state that neither order of the two queries run one after the other
\* produces (an appended entry is missing, or the entries of the two turns
\* are interleaved). Stated as what always holds: when neither thread took a
\* step while the other was inside lines 1540-1545, the store is that of one
\* of the two orders; the witness is the interleaved run that loses an entry.
C20_SerialUnlessInterleaved ==
    (C20_BothDone /\ \A t \in Threads : ~threads[t].mixed) =>
        conversations \in C20_SerialResults

\* both queries have returned and the question of one of them is in no entry:
\* the other thread stored its slice over the list the entry was appended to
C20_Witness ==
    /\ C20_BothDone
    /\ conversations \notin C20_SerialResults
    /\ \E t \in Threads :
          /\ \A i \in 1..Len(conversations[RaceSession].messages) :
                conversations[RaceSession].messages[i] # RaceEntry(t, "user")
          /\ \E i \in 1..Len(conversations[RaceSession].messages) :
                conversations[RaceSession].messages[i] = RaceEntry(t, "assistant")

----------------------------------------------------------------------------
(* The tools of the registry *)

----------------------------------------------------------------------------
(* Tool gating *)

C22_Matches(question, keywords) ==
    \E kw \in keywords : Contains(Lower(question), kw)

C22_Nine ==
    {<<"c", "o", "n", "t", "a", "c", "t">>, <<"e", "m", "a", "i", "l">>,
     <<"p", "h", "o", "n", "e">>, <<"p", "e", "o", "p", "l", "e">>,
     <<"p", "e", "r", "s", "o", "n">>, <<"h", "o", "w", " ", "m", "a", "n", "y">>,
     <<"w", "h", "o", " ", "i", "s">>, <<"b", "i", "r", "t", "h", "d", "a", "y">>,
     <<"a", "d", "d", "r", "e", "s", "s">>}

C22_Eleven ==
    C22_Nine \cup {<<"w", "h", "o", "'", "s">>, <<"i", "n", "v", "i", "t", "e">>}

\* C22 as stated: the round-1 request includes tool schemas if and only if
\* the question contains, case-insensitively, one of contact, email, phone,
\* people, person, "how many", "who is", birthday, address.
C22_NineKeywords ==
    Len(sent) >= 1 => (sent[1].tools # NoTools <=> C22_Matches(req.question, C22_Nine))

\* C22: the round-1 request includes tool schemas if and only if the
\* question contains, case-insensitively, one of the eleven keywords contact,
\* email, phone, people, person, "how many", "who is", "who's", invite,
\* birthday, address; for every other question it carries no tools, and
\* round 2 never carries tools.
C22_ElevenKeywords ==
    /\ Len(sent) >= 1 =>
          (sent[1].tools # NoTools <=> C22_Matches(req.question, C22_Eleven))
    /\ Len(sent) >= 2 => sent[2].tools = NoTools

\* a question with "Who's" and none of the nine keywords was sent with tools
C22_Witness ==
    /\ pc = "round1"
    /\ req.question = Q_WHOS
    /\ ~C22_Matches(req.question, C22_Nine)
    /\ sent[1].tools = CLAUDE_TOOLS

----------------------------------------------------------------------------
(* The transcript of round 2 *)

\* the assistant entry and the user entry that round 2 adds
C23_Assistant == sent[2].messages[Len(sent[2].messages) - 1]

C23_User == sent[2].messages[Len(sent[2].messages)]

\* the order of the round-2 transcript: the messages of round 1 (the history
\* entries and the question), an assistant entry, a user entry of the tool
\* results and the reminder
C23_Order ==
    /\ Len(sent[2].messages) = Len(sent[1].messages) + 2
    /\ SubSeq(sent[2].messages, 1, Len(sent[1].messages)) = sent[1].messages
    /\ sent[1].messages[Len(sent[1].messages)] = [role |-> "user", content |-> req.question]
    /\ C23_Assistant.role = "assistant"
    /\ Len(C23_Assistant.content) = Len(content_blocks)
    /\ C23_User = [role |-> "user", content |-> Append(tool_results, REMINDER)]

\* C23: the round-2 transcript is, in order: the history entries sent in
\* round 1, the question, an assistant entry holding the engine's round-1
\* content blocks verbatim, and a user entry holding the tool results
\* followed by the JSON-only reminder; each tool_use block of the assistant
\* entry carries the input as the engine returned it, also where the
\* executed input was rewritten.
C23_Round2Verbatim ==
    (pc = "round2" /\ Len(sent) = 2) =>
        /\ C23_Order
        /\ \A i \in 1..Len(executed) :
              LET block == C23_Assistant.content[executed[i].id]
              IN  /\ block.type = "tool_use"
                  /\ block.name = executed[i].name
                  /\ block.input = executed[i].asked

----------------------------------------------------------------------------
(* Queries with tool rounds on a session that holds earlier exchanges *)

\* the first k entries of a session's earlier exchanges
Earlier(k) ==
    [i \in 1..k |->
        IF i % 2 = 1
        THEN [role |-> "user", content |-> <<"earlier question ", ToString((i + 1) \div 2)>>]
        ELSE [role |-> "assistant", content |-> <<"Parsed: ", "HELP", " for ", "None">>]]

\* the numbers of entries the session holds at the start: none, fewer than
\* the window sent, more than it, the cap
StoredLengths == {0, 4, 12, MaxMessages}

InitTurns ==
    /\ InitQuery
    /\ apiKey = TRUE
    /\ now = 0
    /\ log = [s \in {} |-> <<>>]
    /\ lastOp = NoCall("init")
    /\ \E k \in StoredLengths :
          conversations =
              [s \in {"s1"} |-> [NewConversation(0) EXCEPT !.messages = Earlier(k)]]

TurnBodies ==
    { Body({"question", "sessionId"}, Q_EMAIL, "s1", "hunch", "", TRUE),
      Body(AllKeys, Q_EMAIL, "s1", "client", "TOW", FALSE),
      Body({"question", "sessionId"}, Q_JOBS, "s1", "hunch", "", TRUE) }

\* the tool requests of round 1: one call, a text and a call
TurnToolContents ==
    { WithIds(<<[type |-> "tool_use", name |-> "get_client_detail",
                 input |-> [k \in {"client_code"} |-> "SKY"]]>>),
      WithIds(<<[type |-> "text", text |-> PROSE],
                [type |-> "tool_use", name |-> "search_people", input |-> EmptyDict]>>) }

TurnContents ==
    {WithIds(<<a>>) : a \in TextShapes({PROSE, JsonText(SKY_INTENT), JsonText(CLARIFY_INTENT)})}

\* queries one after another on one session, with and without a tool round
NextTurns ==
    \/ \E data \in TurnBodies : Submit(data)
    \/ Round1Fail
    \/ \E content \in TurnContents : Round1Answer("end_turn", content)
    \/ \E content \in TurnToolContents : Round1ToolUse(content)
    \/ \E dataOk \in BOOLEAN : ExecuteBlock(dataOk)
    \/ SkipBlock
    \/ Round2Request
    \/ Round2Fail
    \/ \E content \in TurnContents : Round2Response("end_turn", content)
    \/ NextRequest(MaxQueries)

SpecTurns == InitTurns /\ [][NextTurns]_vars

\* every stored entry is a user's question or an assistant's summary
C24_OnlyTurns ==
    \A s \in DOMAIN conversations :
        \A i \in 1..Len(conversations[s].messages) :
            LET entry == conversations[s].messages[i]
            IN  /\ DOMAIN entry = {"role", "content"}
                /\ \/ /\ entry.role = "user"
                      /\ entry.content \in {Q_EMAIL, Q_JOBS}
                                           \cup {Earlier(MaxMessages)[j].content :
                                                    j \in 1..MaxMessages}
                   \/ /\ entry.role = "assistant"
                      /\ Len(entry.content) = 4
                      /\ entry.content[1] = "Parsed: "
                      /\ entry.content[3] = " for "

\* a step of the handler up to the second post (the session found or created,
\* the transcripts built, the tools executed) leaves the stored messages of
\* the query's session as they were
C24_BuildLeavesStore ==
    (pc \in {"idle", "round1", "tools"} /\ pc' \in {"round1", "tools", "round2"}) =>
        /\ SessionId(req') \in DOMAIN conversations'
        /\ conversations'[SessionId(req')].messages = C15_Before(SessionId(req')).messages

\* C24: tool calls and tool results are never persisted: every entry of the
\* stored session messages is either a user question or a short "Parsed: ..."
\* assistant summary, and building the round-1 and round-2 transcripts
\* (appending the question, the engine's content blocks and the tool
\* results) never changes the stored session messages.
C24_NeverPersisted == []C24_OnlyTurns /\ [][C24_BuildLeavesStore]_vars

\* a query with a tool round has ended with an intent: the session holds its
\* earlier entries, the question and the summary, and nothing of the tool round
C24_Witness ==
    /\ pc = "done"
    /\ tally.executed > 0
    /\ tally.calls = 2
    /\ responses[1].status = 200
    /\ responses[1].kind = "parsed"
    /\ conversations["s1"].messages =
           Earlier(4) \o <<[role |-> "user", content |-> Q_EMAIL],
                           [role |-> "assistant", content |-> Summary(SKY_INTENT)]>>

\* the entry of the question, the latest user turn
C25_Question == [role |-> "user", content |-> req.question]

\* C25 as stated: the round-1 request carries the whole trimmed session
\* history followed by the question: for a session holding k stored messages
\* (k up to 20), the request's messages are those k entries in order plus the
\* question.
C25_WholeHistory ==
    (Len(sent) >= 1 /\ conv # <<>>) =>
        sent[1].messages = Append(conv[1].messages, C25_Question)

\* C25: the round-1 request carries the last 10 stored messages (5 exchanges)
\* followed by the question as the latest user turn: for a session holding k
\* stored messages, the request's messages are the last min(k, 10) of them in
\* order plus the question; older entries stay in the session and are not sent.
C25_LastTen ==
    (Len(sent) >= 1 /\ conv # <<>>) =>
        /\ sent[1].messages = Append(LastEntries(conv[1].messages, 10), C25_Question)
        /\ Len(sent[1].messages) <= 11
        /\ conversations[SessionId(req)].messages = conv[1].messages

\* a session of 20 entries: the request starts at the eleventh, and the
\* session still holds all 20
C25_Witness ==
    /\ pc = "round1"
    /\ Len(conv[1].messages) = 20
    /\ Len(sent[1].messages) = 11
    /\ sent[1].messages[1] = Earlier(20)[11]
    /\ sent[1].messages[1] # conv[1].messages[1]
    /\ sent[1].messages[11] = [role |-> "user", content |-> Q_JOBS]
    /\ Len(conversations["s1"].messages) = 20

----------------------------------------------------------------------------
(* The shape of a session between queries *)

\* C26: when queries on a session are handled one at a time, after any
\* sequence of queries, clears and expiries the session's messages have even
\* length and alternate strictly user, assistant, starting with a user entry
\* (also after queries that end in an error).
C26_Pairing ==
    pc \in {"idle", "done"} =>
        \A s \in DOMAIN conversations :
            LET msgs == conversations[s].messages
            IN  /\ Len(msgs) % 2 = 0
                /\ \A i \in 1..Len(msgs) :
                      msgs[i].role = (IF i % 2 = 1 THEN "user" ELSE "assistant")

\* the hint of a query names no job
C27_NoJob(hint) == \A i \in 1..Len(hint) : hint[i] # "Last discussed job: "

\* the query has found its session and posted its first request
C27_Submitted == pc = "idle" /\ pc' = "round1"

----------------------------------------------------------------------------
(* Tracker access *)

\* C28: a query submitted with trackerAccess = false never executes
\* get_spend_summary: the tool is left out of the schemas offered in round 1,
\* and a round-1 tool call naming get_spend_summary is not executed, for
\* every response of the engine.
C28_NoSpendWithoutAccess ==
    (pc # "idle" /\ ~TrackerAccess(req)) =>
        /\ \A i \in 1..Len(sent) : "get_spend_summary" \notin Range(sent[i].tools)
        /\ \A i \in 1..Len(executed) : executed[i].name # "get_spend_summary"

----------------------------------------------------------------------------
(* Two threads in the check-then-delete steps of the session store *)

\* a thread outside the store's functions
Outside ==
    [op |-> "none", sid |-> "", at |-> "idle", expired |-> <<>>,
     deleted |-> {}, created |-> {}, calls |-> 0]

\* each thread makes at most this many calls
MaxCalls == 2

\* the sessions of the store in the order of the dict
StoredOrder == <<"s1", "s2">>

\* two sessions last active at 0, before or after their timeout
InitSweep ==
    /\ conversations = [s \in SessionIds |-> NewConversation(0)]
    /\ now \in {0, SESSION_TIMEOUT + 1}
    /\ log = [s \in {} |-> <<>>]
    /\ lastOp = NoCall("init")
    /\ apiKey = TRUE
    /\ pc = "idle"
    /\ req = NoRequest
    /\ sent = <<>>
    /\ outcomes = <<>>
    /\ content_blocks = <<>>
    /\ idx = 0
    /\ tool_results = <<>>
    /\ executed = <<>>
    /\ responses = <<>>
    /\ tally = NoTally
    /\ nq = 0
    /\ conv = <<>>
    /\ final = <<>>
    /\ resolved = {}
    /\ threads = [t \in Threads |-> Outside]

SweepFrame == UNCHANGED <<now, log, lastOp, apiKey, resolved, queryVars>>

\* a handler thread enters get_conversation(sid) or clear_session for sid
SweepCall(t, op, sid) ==
    /\ threads[t].at \in {"idle", "done"}
    /\ threads[t].calls < MaxCalls
    /\ threads' = [threads EXCEPT ![t].op = op, ![t].sid = sid,
                                  ![t].at = IF op = "get" THEN "scan" ELSE "check",
                                  ![t].calls = @ + 1]
    /\ UNCHANGED conversations
    /\ SweepFrame

\* line 42: the list of the expired session ids
SweepScan(t) ==
    /\ threads[t].at = "scan"
    /\ threads' = [threads EXCEPT
                      ![t].expired =
                          SelectSeq(StoredOrder,
                                    LAMBDA s : /\ s \in DOMAIN conversations
                                               /\ Expired(conversations[s], now)),
                      ![t].at = "sweep"]
    /\ UNCHANGED conversations
    /\ SweepFrame

\* lines 43-44: del conversations[sid] for the next id of the list; a
\* missing key raises KeyError
SweepDel(t) ==
    /\ threads[t].at = "sweep"
    /\ threads[t].expired # <<>>
    /\ LET sid == Head(threads[t].expired)
       IN  IF sid \in DOMAIN conversations
           THEN /\ conversations' = DelSession(conversations, sid)
                /\ threads' = [threads EXCEPT ![t].expired = Tail(@),
                                              ![t].deleted = @ \cup {sid}]
           ELSE /\ threads' = [threads EXCEPT ![t].at = "raised"]
                /\ UNCHANGED conversations
    /\ SweepFrame

\* lines 46-53: the session is created or refreshed
SweepEnsure(t) ==
    /\ threads[t].at = "sweep"
    /\ threads[t].expired = <<>>
    /\ LET sid == threads[t].sid
       IN  /\ conversations' =
                  IF sid \in DOMAIN conversations
                  THEN [conversations EXCEPT ![sid].last_active = now]
                  ELSE [s \in DOMAIN conversations \cup {sid} |->
                           IF s = sid THEN NewConversation(now) ELSE conversations[s]]
           /\ threads' = [threads EXCEPT
                             ![t].at = "done",
                             ![t].created = IF sid \in DOMAIN conversations THEN @
                                            ELSE @ \cup {sid}]
    /\ SweepFrame

\* line 1566: "if session_id in conversations"
ClearCheck(t) ==
    /\ threads[t].at = "check"
    /\ threads' = [threads EXCEPT
                      ![t].at = IF threads[t].sid \in DOMAIN conversations
                                THEN "del" ELSE "done"]
    /\ UNCHANGED conversations
    /\ SweepFrame

\* line 1567: del conversations[session_id]; a missing key raises KeyError
ClearDel(t) ==
    /\ threads[t].at = "del"
    /\ LET sid == threads[t].sid
       IN  IF sid \in DOMAIN conversations
           THEN /\ conversations' = DelSession(conversations, sid)
                /\ threads' = [threads EXCEPT ![t].at = "done",
                                              ![t].deleted = @ \cup {sid}]
           ELSE /\ threads' = [threads EXCEPT ![t].at = "raised"]
                /\ UNCHANGED conversations
    /\ SweepFrame

NextSweep ==
    \/ \E t \in Threads, op \in {"get", "clear"}, sid \in SessionIds : SweepCall(t, op, sid)
    \/ \E t \in Threads : SweepScan(t)
    \/ \E t \in Threads : SweepDel(t)
    \/ \E t \in Threads : SweepEnsure(t)
    \/ \E t \in Threads : ClearCheck(t)
    \/ \E t \in Threads : ClearDel(t)

SpecSweep == InitSweep /\ [][NextSweep]_vars

\* C29: under concurrent requests the check-then-delete steps of the session
\* store never fail: two concurrent get_conversation sweeps that both see the
\* same expired session, two concurrent clear_session calls for the same id,
\* or a sweep concurrent with a clear, each complete without error, and each
\* session (one that no call has created anew) is deleted at most once.
C29_DeletesNeverFail ==
    /\ \A t \in Threads : threads[t].at # "raised"
    /\ \A t, u \in Threads :
          t # u => threads[t].deleted \cap threads[u].deleted
                       \subseteq (threads[t].created \cup threads[u].created)

----------------------------------------------------------------------------
(* A session cleared while a query on it is in flight *)

\* the query in flight found or created its session when it was submitted, and
\* the session is not stored now: clear_session has returned for it since
C30_ClearedInFlight ==
    /\ pc = "round1"
    /\ SessionId(req) \notin DOMAIN conversations

\* C30: clear_session removes session state even against queries in flight:
\* once clear_session(s) has returned, a query that was submitted before the
\* clear and finishes after it neither creates s again nor adds its turn or
\* its lastClient to it.
C30_ClearHolds ==
    [][(C30_ClearedInFlight /\ pc' = "done") =>
           SessionId(req) \notin DOMAIN conversations']_vars

====
